---- MODULE Spec2Model ----
(***************************************************************************)
(* Chat backend: user service, message service and their HTTP controllers, *)
(* over a document store without constraints and a socket that publishes   *)
(* 'messageUpdate' events.                                                 *)
(*                                                                         *)
(* Every request is handled by its own task; the only suspension points    *)
(* are the awaited store calls, so one action is one store call together   *)
(* with the synchronous code that runs up to the next await (or to the     *)
(* response).  A store call either answers or throws (fault).              *)
(*                                                                         *)
(* Strings are sequences of one-character strings; a field that is absent  *)
(* from a JSON body is Undefined.  The value handed to res.json / emit is  *)
(* recorded as the body / payload.                                         *)
(***************************************************************************)
EXTENDS Integers, Sequences, FiniteSets, Bags, TLC

VARIABLES users, messages, nextId, clock, emitted, tasks, last

vars == <<users, messages, nextId, clock, emitted, tasks, last>>

\* ------------------------------------------------------------- bounds
MaxIds == 2
MaxClock == 2

Times == 1..MaxClock

\* ------------------------------------------------------------- values
Undefined == <<"undefined">>
NoTime == 0
Names == {<<"a">>, <<"b">>}
Str == {<<>>, <<" ">>} \cup Names
Field == Str \cup {Undefined}
Passwords == {<<>>} \cup Names
PasswordField == Passwords \cup {Undefined}

Null == [null |-> TRUE]
Thrown == [threw |-> TRUE]
NoResult == [none |-> TRUE]
NoResp == [status |-> 0, type |-> "none", body |-> NoResult]

RECURSIVE TrimStart(_)
TrimStart(s) == IF s # <<>> /\ Head(s) = " " THEN TrimStart(Tail(s)) ELSE s

RECURSIVE TrimEnd(_)
TrimEnd(s) == IF s # <<>> /\ s[Len(s)] = " " THEN TrimEnd(SubSeq(s, 1, Len(s) - 1)) ELSE s

Trim(s) == TrimEnd(TrimStart(s))

\* JavaScript truthiness of an optional string: neither undefined nor ''
Truthy(v) == v # Undefined /\ Len(v) > 0

\* ------------------------------------------------------------- responses
Json(status, body) == [status |-> status, type |-> "json", body |-> body]

Text(status, text) == [status |-> status, type |-> "text", body |-> [text |-> text]]

IsError(r) == "error" \in DOMAIN r

\* ------------------------------------------------------------- user store
MatchingUsers(store, username) == {i \in 1..Len(store) : store[i].username = username}

FirstMatch(store, username) ==
    CHOOSE i \in MatchingUsers(store, username) :
        \A j \in MatchingUsers(store, username) : i <= j

findOne(store, username) ==
    IF MatchingUsers(store, username) = {} THEN Null
    ELSE store[FirstMatch(store, username)]

\* the users collection: uniqueness of usernames is "enforced by service
\* pre-check, not by store constraint", so the store accepts every document
UserSchemaAccepts(store, doc) == TRUE

\* create writing over the newest document instead of adding one
createOver(store, doc) ==
    IF store = <<>> THEN <<doc>> ELSE [store EXCEPT ![Len(store)] = doc]

\* Model.create: the collection with the new document added
create(store, doc) == Append(store, doc)

\* findOneAndDelete answering with the document but leaving it stored
RemoveNone(s, i) == s

RemoveAt(s, i) == SubSeq(s, 1, i - 1) \o SubSeq(s, i + 1, Len(s))

\* $set: only the fields present in updates are written
\* an update that writes the document over instead of $set
SetFieldsOver(doc, updates) ==
    [_id |-> doc._id, username |-> updates.username, password |-> updates.password,
     dateJoined |-> updates.dateJoined]

SetFields(doc, updates) ==
    [_id |-> doc._id,
     username |-> IF updates.username # Undefined THEN updates.username ELSE doc.username,
     password |-> IF updates.password # Undefined THEN updates.password ELSE doc.password,
     dateJoined |-> IF updates.dateJoined # NoTime THEN updates.dateJoined ELSE doc.dateJoined]

\* ------------------------------------------------------------- user service
\* the projection gone wrong: the stored document as it is
SafeUserWhole(doc) == doc

SafeUser(doc) == [_id |-> doc._id, username |-> doc.username, dateJoined |-> doc.dateJoined]

UsernameExists == [error |-> "Username already exists"]
InvalidCredentials == [error |-> "Invalid username or password"]
UserNotFound == [error |-> "User not found"]

\* a store call answers with a document, with Null, or throws
StoreAnswer(fault, answer) == IF fault THEN Thrown ELSE answer

\* saveUser without the existence check
saveUserUnchecked(existingUser) ==
    IF existingUser = Thrown THEN [error |-> "Failed to save user"] ELSE NoResult

\* saveUser with the existence lookup outside the try block
saveUserCheckedOutsideTry(existingUser) ==
    IF existingUser = Thrown THEN Thrown
    ELSE IF existingUser # Null THEN UsernameExists
    ELSE NoResult

\* saveUser up to its first await: the existence check
saveUserChecked(existingUser) ==
    IF existingUser = Thrown THEN [error |-> "Failed to save user"]
    ELSE IF existingUser # Null THEN UsernameExists
    ELSE NoResult

\* the document saveUser hands to UserModel.create
saveUserDoc(user, id, now) ==
    [_id |-> id, username |-> user.username, password |-> user.password, dateJoined |-> now]

\* saveUser returning the created document as it is
saveUserCreatedWhole(newUser) ==
    IF newUser = Thrown THEN [error |-> "Failed to save user"] ELSE newUser

saveUserCreated(newUser) ==
    IF newUser = Thrown THEN [error |-> "Failed to save user"] ELSE SafeUser(newUser)

getUserByUsernameResult(user) ==
    IF user = Thrown THEN [error |-> "Failed to get user"]
    ELSE IF user = Null THEN UserNotFound
    ELSE SafeUser(user)

\* loginUser telling an unknown username from a wrong password
loginUserTelling(user, loginCredentials) ==
    IF user = Thrown THEN [error |-> "Failed to login"]
    ELSE IF user = Null THEN UserNotFound
    ELSE IF user.password # loginCredentials.password THEN InvalidCredentials
    ELSE SafeUser(user)

loginUserResult(user, loginCredentials) ==
    IF user = Thrown THEN [error |-> "Failed to login"]
    ELSE IF user = Null THEN InvalidCredentials
    ELSE IF user.password # loginCredentials.password THEN InvalidCredentials
    ELSE SafeUser(user)

deleteUserByUsernameResult(user) ==
    IF user = Thrown THEN [error |-> "Failed to delete user"]
    ELSE IF user = Null THEN UserNotFound
    ELSE SafeUser(user)

\* updateUser taking a missing record for a store failure
updateUserNoNullCheck(user) ==
    IF user = Thrown \/ user = Null THEN [error |-> "Failed to update user"]
    ELSE SafeUser(user)

updateUserResult(user) ==
    IF user = Thrown THEN [error |-> "Failed to update user"]
    ELSE IF user = Null THEN UserNotFound
    ELSE SafeUser(user)

\* ------------------------------------------------------------- user controller
isUserBodyValid(body) ==
    /\ Truthy(body.username)
    /\ Truthy(body.password)
    /\ Len(Trim(body.username)) > 0
    /\ Len(body.password) > 0

\* resetPassword checking the username only
isResetBodyValidNoPassword(body) == Truthy(body.username)

isResetBodyValid(body) == Truthy(body.username) /\ Truthy(body.password)

InternalServerError == Json(500, [error |-> "Internal server error"])

createUserRespond(result) ==
    IF result = Thrown THEN InternalServerError
    ELSE IF IsError(result)
         THEN IF result.error = "Username already exists" THEN Json(400, result)
              ELSE Json(500, result)
         ELSE Json(200, result)

\* userLogin answering 400 for rejected credentials
userLoginRespond400(result) ==
    IF result = Thrown THEN InternalServerError
    ELSE IF IsError(result)
         THEN IF result.error = "Invalid username or password" THEN Json(400, result)
              ELSE Json(500, result)
         ELSE Json(200, result)

userLoginRespond(result) ==
    IF result = Thrown THEN InternalServerError
    ELSE IF IsError(result)
         THEN IF result.error = "Invalid username or password" THEN Json(401, result)
              ELSE Json(500, result)
         ELSE Json(200, result)

getUserRespond(result) ==
    IF result = Thrown THEN InternalServerError
    ELSE IF IsError(result)
         THEN IF result.error = "User not found" THEN Json(404, result)
              ELSE Json(500, result)
         ELSE Json(200, result)

deleteUserRespond(result) ==
    IF result = Thrown THEN InternalServerError
    ELSE IF IsError(result)
         THEN IF result.error = "User not found" THEN Json(404, result)
              ELSE Json(500, result)
         ELSE Json(200, result)

resetPasswordRespond(result) ==
    IF result = Thrown THEN InternalServerError
    ELSE IF IsError(result)
         THEN IF result.error = "User not found" THEN Json(404, result)
              ELSE Json(500, result)
         ELSE Json(200, result)

\* the response a route sends for the outcome of its service call
Respond(route, result) ==
    CASE route = "createUser" -> createUserRespond(result)
      [] route = "userLogin" -> userLoginRespond(result)
      [] route = "getUser" -> getUserRespond(result)
      [] route = "deleteUser" -> deleteUserRespond(result)
      [] route = "resetPassword" -> resetPasswordRespond(result)
      [] OTHER -> NoResp

\* ------------------------------------------------------------- bookkeeping
\* The operation that finished last, until its caller has taken the result:
\* its entry point (a route, or "none" for a direct call of the service), the
\* service called, the request, the service's result, the response sent, the
\* calls made in order, the events emitted, whether a store call threw, and
\* whether a record matched the username when the store was asked.
Finished(route, svc, req, result, resp, trace, emits, fault, existed) ==
    [route |-> route, svc |-> svc, req |-> req, result |-> result, resp |-> resp,
     trace |-> trace, emits |-> emits, fault |-> fault, existed |-> existed]

NoRequest == [none |-> TRUE]

NoOp == Finished("none", "none", NoRequest, NoResult, NoResp, <<>>, <<>>, FALSE, FALSE)

Traced(route, trace) == IF route = "none" THEN trace ELSE Append(trace, "respond")

\* a service result goes back to the caller, or through the route to the client
Return(route, svc, req, result, trace, fault, existed) ==
    last' = Finished(route, svc, req, result, Respond(route, result),
                     Traced(route, trace), <<>>, fault, existed)

\* a route answers without calling a service
Reject(route, req, resp) ==
    /\ last' = Finished(route, "none", req, NoResult, resp, <<"respond">>, <<>>, FALSE, FALSE)
    /\ UNCHANGED <<users, messages, nextId, clock, emitted, tasks>>

\* the tasks suspended at the await of a store call, and the ids the store
\* will still have to hand out to them
Suspend(task) == tasks' = tasks (+) SetToBag({task})

Resume(task) == tasks' = tasks (-) SetToBag({task})

Pending == {t \in BagToSet(tasks) : t.at = "create"}

PendingCreates == BagCardinality([t \in Pending |-> tasks[t]])

CanSuspend == nextId + PendingCreates <= MaxIds

Init ==
    /\ users = <<>>
    /\ messages = <<>>
    /\ nextId = 1
    /\ clock = 1
    /\ emitted = <<>>
    /\ tasks = EmptyBag
    /\ last = NoOp

\* time passes
Tick ==
    /\ last = NoOp
    /\ clock < MaxClock
    /\ clock' = clock + 1
    /\ UNCHANGED <<users, messages, nextId, emitted, tasks, last>>

\* the caller takes the result of the operation that finished
Receive ==
    /\ last # NoOp
    /\ last' = NoOp
    /\ UNCHANGED <<users, messages, nextId, clock, emitted, tasks>>

\* ------------------------------------------------------------- user operations
\* saveUser, first part: UserModel.findOne, then the check of its answer
saveUser(route, req, user) ==
    \E fault \in BOOLEAN :
        LET checked == saveUserChecked(StoreAnswer(fault, findOne(users, user.username)))
            existed == MatchingUsers(users, user.username) # {}
        IN  /\ IF checked # NoResult
               THEN /\ Return(route, "saveUser", req, checked,
                              <<"saveUser", "findOne">>, fault, existed)
                    /\ UNCHANGED tasks
               ELSE /\ CanSuspend
                    /\ Suspend([at |-> "create", route |-> route, req |-> req,
                                user |-> user, existed |-> existed])
                    /\ UNCHANGED last
            /\ UNCHANGED <<users, messages, nextId, clock, emitted>>

\* saveUser, second part: UserModel.create, then the projection
saveUserCreate ==
    \E task \in Pending : \E fault \in BOOLEAN :
        LET doc == saveUserDoc(task.user, nextId, clock)
        IN  /\ last = NoOp
            /\ UserSchemaAccepts(users, doc)
            /\ users' = IF fault THEN users ELSE create(users, doc)
            /\ nextId' = IF fault THEN nextId ELSE nextId + 1
            /\ Return(task.route, "saveUser", task.req,
                      saveUserCreated(StoreAnswer(fault, doc)),
                      <<"saveUser", "findOne", "create">>, fault, task.existed)
            /\ Resume(task)
            /\ UNCHANGED <<messages, clock, emitted>>

getUserByUsername(route, req, username) ==
    \E fault \in BOOLEAN :
        /\ Return(route, "getUserByUsername", req,
                  getUserByUsernameResult(StoreAnswer(fault, findOne(users, username))),
                  <<"getUserByUsername", "findOne">>, fault,
                  MatchingUsers(users, username) # {})
        /\ UNCHANGED <<users, messages, nextId, clock, emitted, tasks>>

loginUser(route, req, loginCredentials) ==
    \E fault \in BOOLEAN :
        /\ Return(route, "loginUser", req,
                  loginUserResult(StoreAnswer(fault, findOne(users, loginCredentials.username)),
                                  loginCredentials),
                  <<"loginUser", "findOne">>, fault,
                  MatchingUsers(users, loginCredentials.username) # {})
        /\ UNCHANGED <<users, messages, nextId, clock, emitted, tasks>>

\* UserModel.findOneAndDelete: removes the first match and answers with it
deleteUserByUsername(route, req, username) ==
    \E fault \in BOOLEAN :
        LET found == MatchingUsers(users, username) # {}
        IN  /\ users' = IF fault \/ ~found THEN users
                        ELSE RemoveAt(users, FirstMatch(users, username))
            /\ Return(route, "deleteUserByUsername", req,
                      deleteUserByUsernameResult(StoreAnswer(fault, findOne(users, username))),
                      <<"deleteUserByUsername", "findOneAndDelete">>, fault, found)
            /\ UNCHANGED <<messages, nextId, clock, emitted, tasks>>

\* UserModel.findOneAndUpdate with {new: true}: answers with the updated document
updateUser(route, req, username, updates) ==
    \E fault \in BOOLEAN :
        LET found == MatchingUsers(users, username) # {}
            updated == IF found THEN SetFields(findOne(users, username), updates) ELSE Null
        IN  /\ found => UserSchemaAccepts(users, updated)
            /\ users' = IF fault \/ ~found THEN users
                        ELSE [users EXCEPT ![FirstMatch(users, username)] = updated]
            /\ Return(route, "updateUser", req, updateUserResult(StoreAnswer(fault, updated)),
                      <<"updateUser", "findOneAndUpdate">>, fault, found)
            /\ UNCHANGED <<messages, nextId, clock, emitted, tasks>>

\* ------------------------------------------------------------- user routes
Bodies == [username : Field, password : PasswordField]
Params == [username : Str \ {<<>>}]

createUser(body) ==
    /\ last = NoOp
    /\ IF ~isUserBodyValid(body)
       THEN Reject("createUser", body, Text(400, "Invalid user body"))
       ELSE saveUser("createUser", body,
                     [username |-> body.username, password |-> body.password,
                      dateJoined |-> clock])

userLogin(body) ==
    /\ last = NoOp
    /\ IF ~isUserBodyValid(body)
       THEN Reject("userLogin", body, Text(400, "Invalid user body"))
       ELSE loginUser("userLogin", body, body)

getUser(params) ==
    /\ last = NoOp
    /\ IF ~Truthy(params.username)
       THEN Reject("getUser", params, Json(400, [error |-> "Username is required"]))
       ELSE getUserByUsername("getUser", params, params.username)

deleteUser(params) ==
    /\ last = NoOp
    /\ IF ~Truthy(params.username)
       THEN Reject("deleteUser", params, Json(400, [error |-> "Username is required"]))
       ELSE deleteUserByUsername("deleteUser", params, params.username)

resetPassword(body) ==
    /\ last = NoOp
    /\ IF ~isResetBodyValid(body)
       THEN Reject("resetPassword", body, Text(400, "Invalid user body"))
       ELSE updateUser("resetPassword", body, body.username,
                       [username |-> Undefined, password |-> body.password,
                        dateJoined |-> NoTime])

\* ------------------------------------------------------------- direct calls
\* updateUser as the service tests call it: any subset of the fields
Updates == [username : Names \cup {Undefined}, password : {<<"b">>, Undefined},
            dateJoined : {1, NoTime}]

callUpdateUser(username, updates) ==
    /\ last = NoOp
    /\ updateUser("none", [username |-> username, updates |-> updates], username, updates)

\* ------------------------------------------------------------- message service
NoBody == [none |-> TRUE]
NoMessage == [none |-> TRUE]
MessagesToAdd == [msg : Field, msgFrom : Field \ {<<"b">>}, msgDateTime : Times \cup {NoTime}]
MessageBodies == {NoBody} \cup [messageToAdd : {NoMessage} \cup MessagesToAdd]

\* saveMessage stamping every message with the current time
saveMessageDocNow(message, id, now) ==
    [_id |-> id, msg |-> message.msg, msgFrom |-> message.msgFrom, msgDateTime |-> now]

\* the document saveMessage hands to MessageModel.create
saveMessageDoc(message, id, now) ==
    [_id |-> id, msg |-> message.msg, msgFrom |-> message.msgFrom,
     msgDateTime |-> IF message.msgDateTime # NoTime THEN message.msgDateTime ELSE now]

saveMessageResult(newMessage) ==
    IF newMessage = Thrown THEN [error |-> "Failed to save message"] ELSE newMessage

IsAscending(s) == \A i \in 1..(Len(s) - 1) : s[i].msgDateTime <= s[i + 1].msgDateTime

\* find() without the sort: the messages in the order of their creation
Unsorted(store) == {store}

\* find().sort({msgDateTime: 1}): every stored message, ascending by
\* msgDateTime; the store fixes no order among equal keys
SortedByDate(store) ==
    {s \in {[i \in 1..Len(store) |-> store[f[i]]] : f \in Permutations(1..Len(store))} :
        IsAscending(s)}

\* getMessages without the catch
getMessagesRethrow(found) == found

\* the array getMessages returns, as [list |-> the array]
getMessagesResult(found) == IF found = Thrown THEN [list |-> <<>>] ELSE found

\* ------------------------------------------------------------- message controller
isRequestValid(body) == body # NoBody /\ body.messageToAdd # NoMessage

\* isMessageValid checking the text only
isMessageValidMsgOnly(message) ==
    /\ message # NoMessage
    /\ Truthy(message.msg)
    /\ Len(Trim(message.msg)) > 0

isMessageValid(message) ==
    /\ message # NoMessage
    /\ Truthy(message.msg)
    /\ Len(Trim(message.msg)) > 0
    /\ Truthy(message.msgFrom)
    /\ Len(Trim(message.msgFrom)) > 0

\* the event carrying the record itself instead of {msg: record}
MessageUpdateBare(result) == [event |-> "messageUpdate", payload |-> result]

MessageUpdate(result) == [event |-> "messageUpdate", payload |-> [msg |-> result]]

addMessageRespond(result) ==
    IF result = Thrown THEN Json(500, [error |-> "Failed to add message"])
    ELSE IF IsError(result) THEN Json(500, result)
    ELSE Json(200, result)

getMessagesRespond(result) ==
    IF result = Thrown THEN Json(500, [error |-> "Failed to retrieve messages"])
    ELSE Json(200, result)

\* addMessageRoute up to the await of saveMessage: validation, MessageModel.create
addMessageRoute(body) ==
    /\ last = NoOp
    /\ IF ~isRequestValid(body)
       THEN Reject("addMessageRoute", body, Text(400, "Invalid request"))
       ELSE IF ~isMessageValid(body.messageToAdd)
       THEN Reject("addMessageRoute", body, Text(400, "Invalid message"))
       ELSE \E fault \in BOOLEAN :
            LET doc == saveMessageDoc(body.messageToAdd, nextId, clock)
                result == saveMessageResult(StoreAnswer(fault, doc))
            IN  /\ messages' = IF fault THEN messages ELSE create(messages, doc)
                /\ nextId' = IF fault THEN nextId ELSE nextId + 1
                /\ IF IsError(result)
                   THEN /\ last' = Finished("addMessageRoute", "saveMessage", body, result,
                                            addMessageRespond(result),
                                            <<"saveMessage", "create", "respond">>, <<>>,
                                            fault, FALSE)
                        /\ UNCHANGED tasks
                   ELSE /\ CanSuspend
                        /\ Suspend([at |-> "emit", req |-> body, result |-> result])
                        /\ UNCHANGED last
                /\ UNCHANGED <<users, clock, emitted>>

\* addMessageRoute after the await: socket.emit, then the response
addMessageEmit ==
    \E task \in {t \in BagToSet(tasks) : t.at = "emit"} :
        /\ last = NoOp
        /\ emitted' = Append(emitted, MessageUpdate(task.result))
        /\ last' = Finished("addMessageRoute", "saveMessage", task.req, task.result,
                            addMessageRespond(task.result),
                            <<"saveMessage", "create", "emit", "respond">>,
                            <<MessageUpdate(task.result)>>, FALSE, FALSE)
        /\ Resume(task)
        /\ UNCHANGED <<users, messages, nextId, clock>>

\* getMessagesRoute: getMessages, then the response
getMessagesRoute ==
    \E sorted \in SortedByDate(messages) : \E fault \in BOOLEAN :
        LET result == getMessagesResult(StoreAnswer(fault, [list |-> sorted]))
        IN  /\ last = NoOp
            /\ last' = Finished("getMessagesRoute", "getMessages", NoRequest, result,
                                getMessagesRespond(result),
                                <<"getMessages", "find", "respond">>, <<>>, fault, FALSE)
            /\ UNCHANGED <<users, messages, nextId, clock, emitted, tasks>>

\* ------------------------------------------------------------- the system
\* the user service behind its routes, and called directly
Next ==
    \/ Tick
    \/ Receive
    \/ \E body \in Bodies : createUser(body)
    \/ saveUserCreate
    \/ \E body \in Bodies : userLogin(body)
    \/ \E params \in Params : getUser(params)
    \/ \E params \in Params : deleteUser(params)
    \/ \E body \in Bodies : resetPassword(body)
    \/ \E username \in Names : \E updates \in Updates : callUpdateUser(username, updates)

Spec == Init /\ [][Next]_vars

\* the message service behind its routes; it shares no collection with the
\* user service
NextMessages ==
    \/ Tick
    \/ Receive
    \/ \E body \in MessageBodies : addMessageRoute(body)
    \/ addMessageEmit
    \/ getMessagesRoute

SpecMessages == Init /\ [][NextMessages]_vars

\* both services together: signup, login and lookups with usernames and
\* passwords that pass validation, password resets with any body, updates
\* that rename, well-formed messages
ValidBodies == [username : Names, password : Names]
ValidParams == [username : Names]
Renames == [username : Names, password : {Undefined}, dateJoined : {NoTime}]
ValidMessageBodies ==
    [messageToAdd : [msg : {<<"a">>}, msgFrom : {<<"a">>}, msgDateTime : Times \cup {NoTime}]]

NextAll ==
    \/ Tick
    \/ Receive
    \/ \E body \in ValidBodies : createUser(body)
    \/ saveUserCreate
    \/ \E body \in ValidBodies : userLogin(body)
    \/ \E params \in ValidParams : getUser(params)
    \/ \E params \in ValidParams : deleteUser(params)
    \/ \E body \in Bodies : resetPassword(body)
    \/ \E username \in Names : \E updates \in Renames : callUpdateUser(username, updates)
    \/ \E body \in ValidMessageBodies : addMessageRoute(body)
    \/ addMessageEmit
    \/ getMessagesRoute

SpecAll == Init /\ [][NextAll]_vars

\* ------------------------------------------------------------- the controllers alone
\* The routes with the service functions replaced by stubs, as the controller
\* tests replace them: the stub resolves to a value or rejects (Thrown).
ErrorMessages ==
    {"Username already exists", "Failed to save user", "User not found",
     "Failed to get user", "Invalid username or password", "Failed to login",
     "Failed to delete user", "Failed to update user", "Failed to save message"}

\* the values the stubs resolve to: a fixed safe user per name, a fixed message
SafeUsers == [_id : {1}, username : Names, dateJoined : {1}]

UserOutcomes == {Thrown} \cup {[error |-> e] : e \in ErrorMessages} \cup SafeUsers

StoredMessages == [_id : {1}, msg : Names, msgFrom : {<<"a">>}, msgDateTime : {1}]

MessageOutcomes == {Thrown, [error |-> "Failed to save message"]} \cup StoredMessages

ServiceOf(route) ==
    CASE route = "createUser" -> "saveUser"
      [] route = "userLogin" -> "loginUser"
      [] route = "getUser" -> "getUserByUsername"
      [] route = "deleteUser" -> "deleteUserByUsername"
      [] route = "resetPassword" -> "updateUser"

\* a user route whose request passed validation, around a stubbed service
Stubbed(route, req, outcome) ==
    /\ last' = Finished(route, ServiceOf(route), req, outcome, Respond(route, outcome),
                        <<ServiceOf(route), "respond">>, <<>>, FALSE, FALSE)
    /\ UNCHANGED <<users, messages, nextId, clock, emitted, tasks>>

stubCreateUser(body, outcome) ==
    /\ last = NoOp
    /\ IF ~isUserBodyValid(body)
       THEN Reject("createUser", body, Text(400, "Invalid user body"))
       ELSE Stubbed("createUser", body, outcome)

stubUserLogin(body, outcome) ==
    /\ last = NoOp
    /\ IF ~isUserBodyValid(body)
       THEN Reject("userLogin", body, Text(400, "Invalid user body"))
       ELSE Stubbed("userLogin", body, outcome)

stubGetUser(params, outcome) ==
    /\ last = NoOp
    /\ IF ~Truthy(params.username)
       THEN Reject("getUser", params, Json(400, [error |-> "Username is required"]))
       ELSE Stubbed("getUser", params, outcome)

stubDeleteUser(params, outcome) ==
    /\ last = NoOp
    /\ IF ~Truthy(params.username)
       THEN Reject("deleteUser", params, Json(400, [error |-> "Username is required"]))
       ELSE Stubbed("deleteUser", params, outcome)

stubResetPassword(body, outcome) ==
    /\ last = NoOp
    /\ IF ~isResetBodyValid(body)
       THEN Reject("resetPassword", body, Text(400, "Invalid user body"))
       ELSE Stubbed("resetPassword", body, outcome)

stubAddMessageRoute(body, outcome) ==
    /\ last = NoOp
    /\ IF ~isRequestValid(body)
       THEN Reject("addMessageRoute", body, Text(400, "Invalid request"))
       ELSE IF ~isMessageValid(body.messageToAdd)
       THEN Reject("addMessageRoute", body, Text(400, "Invalid message"))
       ELSE IF outcome = Thrown \/ IsError(outcome)
       THEN /\ last' = Finished("addMessageRoute", "saveMessage", body, outcome,
                                addMessageRespond(outcome), <<"saveMessage", "respond">>,
                                <<>>, FALSE, FALSE)
            /\ UNCHANGED <<users, messages, nextId, clock, emitted, tasks>>
       ELSE /\ Len(emitted) < MaxIds
            /\ emitted' = Append(emitted, MessageUpdate(outcome))
            /\ last' = Finished("addMessageRoute", "saveMessage", body, outcome,
                                addMessageRespond(outcome),
                                <<"saveMessage", "emit", "respond">>,
                                <<MessageUpdate(outcome)>>, FALSE, FALSE)
            /\ UNCHANGED <<users, messages, nextId, clock, tasks>>

NextStub ==
    \/ Receive
    \/ \E body \in Bodies : \E outcome \in UserOutcomes : stubCreateUser(body, outcome)
    \/ \E body \in Bodies : \E outcome \in UserOutcomes : stubUserLogin(body, outcome)
    \/ \E params \in Params : \E outcome \in UserOutcomes : stubGetUser(params, outcome)
    \/ \E params \in Params : \E outcome \in UserOutcomes : stubDeleteUser(params, outcome)
    \/ \E body \in Bodies : \E outcome \in UserOutcomes : stubResetPassword(body, outcome)
    \/ \E body \in MessageBodies : \E outcome \in MessageOutcomes :
          stubAddMessageRoute(body, outcome)

SpecStub == Init /\ [][NextStub]_vars

\* ============================================================= claims
UserRoutes == {"createUser", "userLogin", "getUser", "deleteUser", "resetPassword"}

UserServices == {"saveUser", "loginUser", "getUserByUsername", "deleteUserByUsername",
                 "updateUser"}

\* C1: in every reachable state no two stored user records share a username
C1_UniqueUsernames ==
    \A i, j \in 1..Len(users) : users[i].username = users[j].username => i = j

\* C2: every value a user service returns, and every body a user route sends,
\* has no password field: a success value has exactly _id, username and
\* dateJoined, an error value has only error
C2_NoPasswordReturned ==
    /\ last.svc \in UserServices =>
          DOMAIN last.result = IF "error" \in DOMAIN last.result THEN {"error"}
                               ELSE {"_id", "username", "dateJoined"}
    /\ last.route \in UserRoutes =>
          /\ "password" \notin DOMAIN last.resp.body
          /\ last.svc \in UserServices => last.resp.body = last.result

C2_Witness ==
    /\ last.route = "createUser"
    /\ last.resp.status = 200
    /\ DOMAIN last.resp.body = {"_id", "username", "dateJoined"}
    /\ \E i \in 1..Len(users) : users[i]._id = last.result._id /\ users[i].password # <<>>

\* C3 (as stated): saveUser called with a username that is already stored
\* always returns 'Username already exists', whatever the password, and the
\* signup route answers 400 with that error as JSON
C3_AlwaysUsernameExists ==
    (last.svc = "saveUser" /\ last.existed) =>
        /\ last.result = [error |-> "Username already exists"]
        /\ last.route = "createUser" =>
              last.resp = [status |-> 400, type |-> "json",
                           body |-> [error |-> "Username already exists"]]

\* C3 (amended): the same, whenever the existence lookup does not fail
C3_UsernameExistsUnlessFault ==
    (last.svc = "saveUser" /\ last.existed /\ ~last.fault) =>
        /\ last.result = [error |-> "Username already exists"]
        /\ last.route = "createUser" =>
              last.resp = [status |-> 400, type |-> "json",
                           body |-> [error |-> "Username already exists"]]

C3_Witness ==
    /\ last.svc = "saveUser"
    /\ last.existed
    /\ ~last.fault
    /\ last.resp.status = 400
    /\ \E i \in 1..Len(users) :
          users[i].username = last.req.username /\ users[i].password # last.req.password

\* the stored records that have the username and the password of the credentials
Matching(credentials) ==
    {i \in 1..Len(users) : /\ users[i].username = credentials.username
                           /\ users[i].password = credentials.password}

\* C4: when the lookup does not fail, loginUser returns the safe projection of
\* the stored user iff a record with the username exists whose password equals
\* the supplied one, and 'Invalid username or password' in every other case
C4_LoginIffMatch ==
    (last.svc = "loginUser" /\ ~last.fault) =>
        IF Matching(last.req) # {}
        THEN \E i \in Matching(last.req) :
                last.result = [_id |-> users[i]._id, username |-> users[i].username,
                               dateJoined |-> users[i].dateJoined]
        ELSE last.result = [error |-> "Invalid username or password"]

\* C5: a login that fails because the username is unknown and a login that
\* fails because the password is wrong get the same error value, the same
\* status (401) and the same body: each gets the one value that names no cause
C5_LoginFailuresAlike ==
    (last.svc = "loginUser" /\ ~last.fault /\ Matching(last.req) = {}) =>
        /\ last.result = [error |-> "Invalid username or password"]
        /\ last.resp = [status |-> 401, type |-> "json",
                        body |-> [error |-> "Invalid username or password"]]

C5_Witness ==
    /\ last.svc = "loginUser"
    /\ ~last.fault
    /\ last.existed
    /\ Matching(last.req) = {}
    /\ last.resp.status = 401

\* C6: a successful addMessage request emits exactly one 'messageUpdate', after
\* the store write and before the response; its payload {msg} is the persisted
\* record, with its identifier and resolved msgDateTime, which is also the
\* response body
C6_OneMessageUpdate ==
    (last.route = "addMessageRoute" /\ last.resp.status = 200) =>
        /\ last.trace = <<"saveMessage", "create", "emit", "respond">>
        /\ last.emits = <<[event |-> "messageUpdate", payload |-> [msg |-> last.result]]>>
        /\ last.resp.body = last.result
        /\ \E i \in 1..Len(messages) : messages[i] = last.result
        /\ last.result._id \in 1..MaxIds
        /\ last.result.msgDateTime \in Times
        /\ last.req.messageToAdd.msgDateTime # NoTime =>
              last.result.msgDateTime = last.req.messageToAdd.msgDateTime
        /\ Cardinality({k \in 1..Len(emitted) :
                           emitted[k] = [event |-> "messageUpdate",
                                         payload |-> [msg |-> last.result]]}) = 1

C6_Witness ==
    /\ last.route = "addMessageRoute"
    /\ last.resp.status = 200
    /\ last.req.messageToAdd.msgDateTime = NoTime
    /\ Len(emitted) = 2
    /\ emitted[2].payload.msg = last.result

\* C7: when the store does not fail, getMessages returns all stored messages in
\* non-decreasing order of msgDateTime, whatever the order of their creation
C7_MessagesByDate ==
    (last.svc = "getMessages" /\ ~last.fault) =>
        LET list == last.result.list
        IN  /\ Len(list) = Len(messages)
            /\ \A i \in 1..Len(messages) : \E j \in 1..Len(list) : list[j] = messages[i]
            /\ \A i, j \in 1..Len(list) :
                  i < j => list[i].msgDateTime <= list[j].msgDateTime

C7_Witness ==
    /\ last.svc = "getMessages"
    /\ ~last.fault
    /\ Len(last.result.list) = 2
    /\ last.result.list[1]._id > last.result.list[2]._id
    /\ last.result.list[1].msgDateTime < last.result.list[2].msgDateTime

\* C8 (as stated): deleteUserByUsername and updateUser called with a username
\* that matches no stored record always return 'User not found', whatever the
\* update fields, and deleteUser and resetPassword answer 404
C8_AlwaysUserNotFound ==
    (last.svc \in {"deleteUserByUsername", "updateUser"} /\ ~last.existed) =>
        /\ last.result = [error |-> "User not found"]
        /\ last.route \in {"deleteUser", "resetPassword"} =>
              last.resp = [status |-> 404, type |-> "json",
                           body |-> [error |-> "User not found"]]

\* C8 (amended): the same, whenever the store call does not fail
C8_UserNotFoundUnlessFault ==
    (last.svc \in {"deleteUserByUsername", "updateUser"} /\ ~last.existed /\ ~last.fault) =>
        /\ last.result = [error |-> "User not found"]
        /\ last.route \in {"deleteUser", "resetPassword"} =>
              last.resp = [status |-> 404, type |-> "json",
                           body |-> [error |-> "User not found"]]

C8_Witness ==
    /\ last.svc = "updateUser"
    /\ last.route = "none"
    /\ ~last.existed
    /\ ~last.fault
    /\ last.req.updates.username # Undefined
    /\ last.req.updates.password # Undefined
    /\ last.result = [error |-> "User not found"]
    /\ users # <<>>

\* a field that is missing or the empty string
Missing(field) == field = Undefined \/ field = <<>>

\* a string of spaces only
Blank(field) == \A k \in 1..Len(field) : field[k] = " "

\* C9: a signup, login or resetPassword request whose username or password is
\* missing or empty (for signup and login also: whose username is empty after
\* trimming) is answered 400 with the plain text 'Invalid user body', and no
\* service function and no store operation is invoked
C9_InvalidUserBody ==
    (/\ last.route \in {"createUser", "userLogin", "resetPassword"}
     /\ \/ Missing(last.req.username)
        \/ Missing(last.req.password)
        \/ last.route # "resetPassword" /\ Blank(last.req.username)) =>
        /\ last.resp = [status |-> 400, type |-> "text",
                        body |-> [text |-> "Invalid user body"]]
        /\ last.svc = "none"
        /\ last.trace = <<"respond">>
        /\ last.result = NoResult

C9_Witness ==
    /\ last.route = "resetPassword"
    /\ last.req.username \in Names
    /\ last.req.password = <<>>
    /\ last.resp.status = 400
    /\ users # <<>>

\* the status a route sends for a tagged error of its service
StatusOfError(route, error) ==
    IF route = "createUser" /\ error = "Username already exists" THEN 400
    ELSE IF route = "userLogin" /\ error = "Invalid username or password" THEN 401
    ELSE IF route \in {"getUser", "deleteUser", "resetPassword"} /\ error = "User not found"
    THEN 404
    ELSE 500

\* C10: for a user request that passed validation the status follows from the
\* service outcome: success 200; 'Username already exists' on signup 400;
\* 'Invalid username or password' on login 401; 'User not found' on getUser,
\* deleteUser and resetPassword 404; any other tagged error 500; a service
\* call that throws 500 with the body {error: 'Internal server error'}
C10_StatusOfOutcome ==
    (last.route \in UserRoutes /\ last.svc # "none") =>
        /\ last.resp.type = "json"
        /\ IF last.result = [threw |-> TRUE]
           THEN /\ last.resp.status = 500
                /\ last.resp.body = [error |-> "Internal server error"]
           ELSE IF "error" \in DOMAIN last.result
           THEN /\ last.resp.status = StatusOfError(last.route, last.result.error)
                /\ last.resp.body = last.result
           ELSE /\ last.resp.status = 200
                /\ last.resp.body = last.result

C10_Witness ==
    /\ last.route = "createUser"
    /\ last.svc = "saveUser"
    /\ last.result = [threw |-> TRUE]
    /\ last.resp.status = 500

\* C11: a failed addMessage request gets its error response and publishes
\* nothing: no messageToAdd gives 400 text 'Invalid request' and no store
\* write; msg or msgFrom missing or empty after trimming gives 400 text
\* 'Invalid message' and no store write; a store error on save gives 500 JSON
\* {error: 'Failed to save message'}; no 'messageUpdate' is emitted
C11_FailedAddMessage ==
    [][last'.route = "addMessageRoute" =>
         LET body == last'.req
             noMessage == \/ "messageToAdd" \notin DOMAIN body
                          \/ "msg" \notin DOMAIN body.messageToAdd
             badMessage == /\ ~noMessage
                           /\ \/ Missing(body.messageToAdd.msg)
                              \/ Blank(body.messageToAdd.msg)
                              \/ Missing(body.messageToAdd.msgFrom)
                              \/ Blank(body.messageToAdd.msgFrom)
         IN  /\ noMessage =>
                   /\ last'.resp = [status |-> 400, type |-> "text",
                                    body |-> [text |-> "Invalid request"]]
                   /\ last'.trace = <<"respond">>
                   /\ UNCHANGED messages
             /\ badMessage =>
                   /\ last'.resp = [status |-> 400, type |-> "text",
                                    body |-> [text |-> "Invalid message"]]
                   /\ last'.trace = <<"respond">>
                   /\ UNCHANGED messages
             /\ last'.fault =>
                   /\ last'.resp = [status |-> 500, type |-> "json",
                                    body |-> [error |-> "Failed to save message"]]
                   /\ UNCHANGED messages
             /\ (noMessage \/ badMessage \/ last'.fault) =>
                   /\ last'.emits = <<>>
                   /\ UNCHANGED emitted]_vars

C11_Witness ==
    /\ last.route = "addMessageRoute"
    /\ last.fault
    /\ last.resp.status = 500
    /\ messages # <<>>
    /\ Len(emitted) = Len(messages)

\* the tagged error each service returns for a store fault
FailureOf(svc) ==
    CASE svc = "saveUser" -> "Failed to save user"
      [] svc = "getUserByUsername" -> "Failed to get user"
      [] svc = "loginUser" -> "Failed to login"
      [] svc = "deleteUserByUsername" -> "Failed to delete user"
      [] svc = "updateUser" -> "Failed to update user"
      [] svc = "saveMessage" -> "Failed to save message"

\* C12: no user or message service function throws: a store fault at any
\* store call of the operation becomes that operation's tagged error, so no
\* raw exception reaches the route
C12_FaultsBecomeErrors ==
    last.svc \in UserServices \cup {"saveMessage"} =>
        /\ last.result # [threw |-> TRUE]
        /\ last.resp.body \notin {[error |-> "Internal server error"],
                                  [error |-> "Failed to add message"]}
        /\ last.fault => /\ last.result = [error |-> FailureOf(last.svc)]
                         /\ last.route # "none" => last.resp.status = 500

C12_Witness ==
    /\ last.svc = "saveUser"
    /\ last.fault
    /\ last.trace = <<"saveUser", "findOne", "respond">>
    /\ last.result = [error |-> "Failed to save user"]
    /\ messages # <<>>

\* C13: getMessages never returns an error: on a store fault it returns the
\* empty sequence, so the route answers 200 with [] both when nothing is
\* stored and when the listing failed
C13_EmptyOnFault ==
    last.svc = "getMessages" =>
        /\ DOMAIN last.result = {"list"}
        /\ last.resp.status = 200
        /\ last.resp.body = last.result
        /\ (last.fault \/ messages = <<>>) =>
              /\ last.result.list = <<>>
              /\ last.resp = [status |-> 200, type |-> "json", body |-> [list |-> <<>>]]

C13_Witness ==
    /\ last.svc = "getMessages"
    /\ last.fault
    /\ messages # <<>>
    /\ last.resp = [status |-> 200, type |-> "json", body |-> [list |-> <<>>]]

\* C14: the dateJoined of a stored user is set once, at creation, to the
\* current time, whatever dateJoined the caller supplied, and no later
\* operation on the record, updateUser with any fields included, changes it
C14_DateJoinedSetOnce ==
    [][/\ \A i \in 1..Len(users) : \A j \in 1..Len(users') :
             users'[j]._id = users[i]._id => users'[j].dateJoined = users[i].dateJoined
       /\ \A j \in 1..Len(users') :
             (\A i \in 1..Len(users) : users[i]._id # users'[j]._id) =>
                users'[j].dateJoined = clock]_vars

\* C15: stored messages are immutable: a stored message stays in the store
\* with the same id, msg, msgFrom and msgDateTime under every user and
\* message operation; the message store only grows
C15_MessagesImmutable ==
    [][/\ Len(messages') >= Len(messages)
       /\ \A i \in 1..Len(messages) :
             /\ messages'[i]._id = messages[i]._id
             /\ messages'[i].msg = messages[i].msg
             /\ messages'[i].msgFrom = messages[i].msgFrom
             /\ messages'[i].msgDateTime = messages[i].msgDateTime]_vars

C15_Witness ==
    /\ Len(messages) = 1
    /\ messages[1]._id = 1
    /\ last.svc = "updateUser"
    /\ last.existed
    /\ ~last.fault
    /\ Len(emitted) = 1

\* C16: saveMessage stores the message with the caller's msgDateTime when
\* one is supplied and with the current time when it is absent, keeps msg and
\* msgFrom as given, and returns the stored record; msgFrom is not checked
\* against the stored users
C16_SaveMessageStores ==
    [][\A t \in BagToSet(tasks') \ BagToSet(tasks) :
          t.at = "emit" =>
             LET message == t.req.messageToAdd
             IN  /\ t.result.msg = message.msg
                 /\ t.result.msgFrom = message.msgFrom
                 /\ t.result.msgDateTime =
                       IF message.msgDateTime # NoTime THEN message.msgDateTime ELSE clock
                 /\ Len(messages') = Len(messages) + 1
                 /\ messages'[Len(messages')] = t.result]_vars

C16_Witness ==
    /\ last.route = "addMessageRoute"
    /\ last.resp.status = 200
    /\ last.req.messageToAdd.msgDateTime = NoTime
    /\ last.result.msgDateTime = 2
    /\ users # <<>>
    /\ \A i \in 1..Len(users) : users[i].username # last.result.msgFrom

\* C17: two concurrent signups with the same, not yet stored username can
\* both succeed: once both saveUser calls have passed their existence check,
\* each create that does not fail stores a record and returns its safe
\* projection, whatever has been stored in between
C17_CheckedSignupsSucceed ==
    [][\A t \in Pending :
          (tasks' = tasks (-) SetToBag({t}) /\ ~last'.fault) =>
             /\ Len(users') = Len(users) + 1
             /\ \A i \in 1..Len(users) : users'[i] = users[i]
             /\ users'[Len(users')].username = t.user.username
             /\ users'[Len(users')].password = t.user.password
             /\ last'.result = [_id |-> users'[Len(users')]._id,
                                username |-> t.user.username,
                                dateJoined |-> users'[Len(users')].dateJoined]
             /\ last'.resp = [status |-> 200, type |-> "json", body |-> last'.result]]_vars

\* both signups of one username have passed the check and neither has created
C17_Witness ==
    /\ users = <<>>
    /\ PendingCreates = 2
    /\ \A t \in Pending : t.user.username = <<"a">> /\ ~t.existed

\* the password a lookup of the username finds: that of the first record
\* with the username, or <<"none">> when there is no such record
PasswordOf(store, username) ==
    IF \A i \in 1..Len(store) : store[i].username # username THEN <<"none">>
    ELSE store[CHOOSE i \in 1..Len(store) :
                  /\ store[i].username = username
                  /\ \A j \in 1..(i - 1) : store[j].username # username].password

\* the step finishes an update or a delete of the username
Rewrites(finished, username) ==
    /\ finished.svc \in {"updateUser", "deleteUserByUsername"}
    /\ finished.req.username = username

\* C18: after a successful resetPassword of an existing user u to p, and
\* until the next update or delete of u, loginUser(u, p) returns the safe
\* projection of u and loginUser(u, q) for every other q, the previous password
\* included, returns 'Invalid username or password' (lookups that fail aside):
\* the reset leaves p as u's password, only an update or a delete of u changes
\* u's password, and a login succeeds exactly with u's password
C18_LoginAfterReset ==
    [][/\ (last'.route = "resetPassword" /\ last'.resp.status = 200) =>
             PasswordOf(users', last'.req.username) = last'.req.password
       /\ \A u \in Names :
             (PasswordOf(users, u) # <<"none">> /\ PasswordOf(users', u) # PasswordOf(users, u))
                => Rewrites(last', u)
       /\ (/\ last'.svc = "loginUser"
           /\ ~last'.fault
           /\ PasswordOf(users', last'.req.username) # <<"none">>) =>
             IF last'.req.password = PasswordOf(users', last'.req.username)
             THEN /\ DOMAIN last'.result = {"_id", "username", "dateJoined"}
                  /\ last'.result.username = last'.req.username
             ELSE last'.result = [error |-> "Invalid username or password"]]_vars

\* no stored record has the username
Absent(store, username) == \A i \in 1..Len(store) : store[i].username # username

\* the step finishes a signup of the username
SignsUp(finished, username) ==
    finished.svc = "saveUser" /\ finished.req.username = username

\* the step finishes an update that renames a record to the username
RenamesTo(finished, username) ==
    /\ finished.svc = "updateUser"
    /\ "updates" \in DOMAIN finished.req
    /\ finished.req.updates.username = username

\* C19 (as stated): after deleteUserByUsername(u) succeeds on a store that
\* held exactly one record named u, and until the next signup of u,
\* getUserByUsername(u) returns 'User not found', loginUser for u returns
\* 'Invalid username or password' for every password, and a following
\* saveUser of u succeeds: the delete leaves no record named u, only a signup
\* of u stores one again, and while there is none the three calls answer so
C19_AfterDelete ==
    [][/\ (/\ last'.svc = "deleteUserByUsername"
           /\ "error" \notin DOMAIN last'.result
           /\ Cardinality({i \in 1..Len(users) : users[i].username = last'.req.username}) = 1)
             => Absent(users', last'.req.username)
       /\ \A u \in Names :
             (Absent(users, u) /\ ~Absent(users', u)) => SignsUp(last', u)
       /\ (last'.svc = "getUserByUsername" /\ Absent(users', last'.req.username)) =>
             last'.result = [error |-> "User not found"]
       /\ (last'.svc = "loginUser" /\ Absent(users', last'.req.username)) =>
             last'.result = [error |-> "Invalid username or password"]
       /\ (last'.svc = "saveUser" /\ ~last'.existed) =>
             /\ DOMAIN last'.result = {"_id", "username", "dateJoined"}
             /\ last'.result.username = last'.req.username]_vars

\* C19 (amended): the same until the next signup of u or update that renames a
\* record to u, for calls whose store calls do not fail
C19_AfterDeleteUnlessRenamed ==
    [][/\ (/\ last'.svc = "deleteUserByUsername"
           /\ "error" \notin DOMAIN last'.result
           /\ Cardinality({i \in 1..Len(users) : users[i].username = last'.req.username}) = 1)
             => Absent(users', last'.req.username)
       /\ \A u \in Names :
             (Absent(users, u) /\ ~Absent(users', u)) => SignsUp(last', u) \/ RenamesTo(last', u)
       /\ (last'.svc = "getUserByUsername" /\ Absent(users', last'.req.username) /\ ~last'.fault) =>
             last'.result = [error |-> "User not found"]
       /\ (last'.svc = "loginUser" /\ Absent(users', last'.req.username) /\ ~last'.fault) =>
             last'.result = [error |-> "Invalid username or password"]
       /\ (last'.svc = "saveUser" /\ ~last'.existed /\ ~last'.fault) =>
             /\ DOMAIN last'.result = {"_id", "username", "dateJoined"}
             /\ last'.result.username = last'.req.username]_vars

C19_Witness ==
    /\ last.svc = "deleteUserByUsername"
    /\ last.existed
    /\ last.resp.status = 200
    /\ Absent(users, last.req.username)
    /\ last.result.username = last.req.username
    /\ users # <<>>

\* C20: a resetPassword request changes at most the password of the one
\* record matched by the username: that record's id, username and dateJoined,
\* every other user record and the message store are unchanged and no
\* 'messageUpdate' is emitted; when the request fails (400, 404 or 500) the
\* user store is unchanged
C20_ResetPasswordFrame ==
    [][last'.route = "resetPassword" =>
          /\ UNCHANGED <<messages, emitted>>
          /\ last'.emits = <<>>
          /\ Len(users') = Len(users)
          /\ \A i \in 1..Len(users) :
                /\ users'[i]._id = users[i]._id
                /\ users'[i].username = users[i].username
                /\ users'[i].dateJoined = users[i].dateJoined
                /\ users'[i].password # users[i].password =>
                      /\ users[i].username = last'.req.username
                      /\ \A j \in 1..(i - 1) : users[j].username # last'.req.username
                      /\ users'[i].password = last'.req.password
          /\ last'.resp.status \in {200, 400, 404, 500}
          /\ last'.resp.status # 200 => users' = users]_vars

C20_Witness ==
    /\ last.route = "resetPassword"
    /\ last.resp.status = 200
    /\ messages # <<>>
    /\ emitted # <<>>
    /\ \E i \in 1..Len(users) :
          /\ users[i].username = last.req.username
          /\ users[i].password = last.req.password
          /\ users[i].dateJoined < clock

====
